---- MODULE Spec2Model ----
(***************************************************************************)
(* A model of credible, a host-local secrets agent.                        *)
(*                                                                         *)
(* Part 1 (specification Spec): the child runner of run-command,           *)
(*   src/src/process/mod.rs run_process, with the kill helper of           *)
(*   src/src/process/signals.rs and the exit code of src/src/main.rs.      *)
(* Part 2 (specification EncSpec): the encrypt pipeline of                 *)
(*   src/src/age.rs encrypt_bytes as driven by SecretManager::create.      *)
(***************************************************************************)
EXTENDS Integers, Sequences, FiniteSets, TLC

\* ------------------------------------------------------------------------
\* Bounds of the model
\* ------------------------------------------------------------------------

\* Number of exposure flags given to one run-command.
MaxSpecs == 2
\* Number of signals other processes send to the agent during one run.
MaxSignals == 2
\* Number of kill helper invocations followed in one run.
MaxKills == 2

\* ------------------------------------------------------------------------
\* Values
\* ------------------------------------------------------------------------

\* Secret names that exposures may refer to, vanity paths, variable names.
Names == {"s1", "s2"}
Paths == {"p1", "p2"}
EnvNames == {"E1", "E2"}

\* The plaintext the store and the identities yield for each secret: s1 is
\* text, s2 is binary.
Plain(name) == IF name = "s1" THEN <<1, 2>> ELSE <<200>>

\* Bytes that String::from_utf8 and read_to_string accept (the model's
\* plaintexts hold no multi-byte sequence: a byte is valid when it is ASCII).
ValidUTF8(bytes) == \A i \in 1..Len(bytes) : bytes[i] < 128

\* Exit codes a child may end with, and PIDs the OS may give it.
ExitCodes == {0, 3}
Pids == {15, 100}

\* Signal numbers (Linux): INT, TERM are sent by other processes; CHLD is
\* sent by the kernel when a subprocess of the agent ends.
SIGINT == 2
SIGTERM == 15
SIGCHLD == 17
ExternalSignals == {SIGINT, SIGTERM}

\* Signals::new(1..32): the half-open range of process/mod.rs line 50.
SignalRange == 1..31

\* The table of process/signals.rs (non-macOS build), by Linux number:
\* HUP INT QUIT TRAP ABRT BUS SYS PIPE ALRM TERM URG TSTP CONT CHLD TTIN TTOU
\* IO XCPU XFSZ VTALRM PROF WINCH USR1 USR2
SIGNALS == {1, 2, 3, 5, 6, 7, 31, 13, 14, 15, 23, 20, 18, 17, 21, 22,
            29, 24, 25, 26, 27, 28, 10, 12}

\* The default signal of the kill utility when no -<signal> option is given.
KillDefaultSignal == 15

\* ------------------------------------------------------------------------
\* Exposures (src/src/secret/exposures.rs)
\* ------------------------------------------------------------------------

FileSpecs == [kind : {"file"}, target : Paths]
EnvSpecs == [kind : {"env"}, target : EnvNames]
ExposureSpec == FileSpecs \cup EnvSpecs
CliExposureSpec == [secret_name : Names, exposure_spec : ExposureSpec]

EmptyExposures == [files |-> [n \in Names |-> <<>>], envs |-> [n \in Names |-> <<>>]]

\* AddSpec that keeps only the latest spec of a name.
AddSpecReplacing(exp, name, spec) ==
    IF spec.kind = "env"
    THEN [exp EXCEPT !.envs[name] = <<spec.target>>]
    ELSE [exp EXCEPT !.files[name] = <<spec.target>>]

\* Exposures::add_config for one (name, spec) entry: push onto the list of the
\* name, in `envs` or in `files`. No duplicate check is made here.
AddSpec(exp, name, spec) ==
    IF spec.kind = "env"
    THEN [exp EXCEPT !.envs[name] = Append(@, spec.target)]
    ELSE [exp EXCEPT !.files[name] = Append(@, spec.target)]

RECURSIVE add_config(_, _)
add_config(exp, config) ==
    IF config = <<>> THEN exp
    ELSE add_config(AddSpec(exp, Head(config).secret_name, Head(config).exposure_spec),
                    Tail(config))

\* Names with at least one spec: the keys of the HashMap.
Keys(m) == {n \in Names : m[n] # <<>>}

RECURSIVE SeqsUpTo(_, _)
SeqsUpTo(S, n) ==
    IF n = 0 THEN {<<>>}
    ELSE LET shorter == SeqsUpTo(S, n - 1)
         IN shorter \cup {Append(q, x) : q \in {r \in shorter : Len(r) = n - 1}, x \in S}

Range(q) == {q[i] : i \in 1..Len(q)}

\* ------------------------------------------------------------------------
\* State
\* ------------------------------------------------------------------------

VARIABLES
    \* inputs of run_process
    argv,          \* the command line of the child
    secrets,       \* names of the configured secret map
    exposures,     \* the finalized Exposures
    \* position in run_process / main
    pc,
    \* file system
    secret_dir,    \* TRUE while the TempDir exists
    tmpFiles,      \* Names -> [exists, data]: files under the tmpdir
    vanity,        \* Paths -> "absent" | "foreign" | name (symlink to tmpdir/name)
    createdLinks,  \* paths at which this run created a symlink
    \* the child process spec and the loops
    cmdEnv,        \* EnvNames -> [set, data]
    buf,           \* the buffer shared by the iterations of a loop
    filesLeft,     \* names not yet visited by the file loop
    cur,           \* the name the file loop is at ("" when none)
    specsLeft,     \* file specs of cur not yet written
    envsLeft,      \* names not yet visited by the env loop
    \* signals
    requested,     \* the numbers handed to Signals::new
    armed,         \* the numbers with a handler installed
    pending,       \* signals delivered to the agent and not yet taken
    received,      \* count of signals sent by other processes
    \* child
    child,         \* "none" | "running" | "exited"
    pid,
    childStatus,
    killLog,       \* one entry per kill helper invocation
    \* results
    result,        \* what run_process returned
    exitCode       \* the exit code of the agent's process (-1: still running)

procVars == <<argv, secrets, exposures, pc, secret_dir, tmpFiles, vanity, createdLinks,
              cmdEnv, buf, filesLeft, cur, specsLeft, envsLeft, requested, armed,
              pending, received, child, pid, childStatus, killLog, result, exitCode>>

NoFile == [exists |-> FALSE, data |-> <<>>]
NoVar == [set |-> FALSE, data |-> <<>>]
NoResult == [kind |-> "none", err |-> "", code |-> -1]
Ok(status) == [kind |-> "Ok", err |-> "", code |-> status]
Err(e) == [kind |-> "Err", err |-> e, code |-> -1]

ProcInit ==
    /\ argv \in {<<>>, <<"cmd">>}
    /\ secrets \in {{"s1"}, Names}
    /\ \E flags \in SeqsUpTo(CliExposureSpec, MaxSpecs) :
           exposures = add_config(EmptyExposures, flags)
    /\ pc = "start"
    /\ secret_dir = FALSE
    /\ tmpFiles = [n \in Names |-> NoFile]
    /\ vanity \in [Paths -> {"absent", "foreign"}]
    /\ createdLinks = {}
    /\ cmdEnv = [e \in EnvNames |-> NoVar]
    /\ buf = <<>>
    /\ filesLeft = {}
    /\ cur = ""
    /\ specsLeft = <<>>
    /\ envsLeft = {}
    /\ requested = {}
    /\ armed = {}
    /\ pending = {}
    /\ received = 0
    /\ child = "none"
    /\ pid = 0
    /\ childStatus = -1
    /\ killLog = <<>>
    /\ result = NoResult
    /\ exitCode = -1


inputVars == <<argv, secrets, exposures>>
loopVars == <<buf, filesLeft, cur, specsLeft, envsLeft>>
sigVars == <<requested, armed, pending, received>>
childVars == <<child, pid, childStatus, killLog>>

\* ------------------------------------------------------------------------
\* run_process (src/src/process/mod.rs)
\* ------------------------------------------------------------------------

Continue(next) ==
    /\ pc' = next
    /\ UNCHANGED <<result, secret_dir, tmpFiles>>

\* Mutant of Return: the TempDir is leaked on an early return (as with
\* TempDir::into_path), so the directory and its files stay.
ReturnKeepingDir(r) ==
    /\ result' = r
    /\ pc' = "done"
    /\ UNCHANGED <<secret_dir, tmpFiles>>

\* An early return through `?`: the error is the result, and the TempDir
\* goes out of scope, which removes the directory with everything in it.
\* The loop after the select, which unlinks the symlinks, is not reached.
Return(r) ==
    /\ result' = r
    /\ pc' = "done"
    /\ secret_dir' = FALSE
    /\ tmpFiles' = [n \in Names |-> NoFile]

\* Start that does not look at argv before it goes on.
StartUnchecked ==
    /\ pc = "start"
    /\ Continue("tempdir")
    /\ UNCHANGED <<inputVars, vanity, createdLinks, cmdEnv, loopVars, sigVars,
                   childVars, exitCode>>

\* lines 32-36: the first element of argv, or EmptyCommand.
Start ==
    /\ pc = "start"
    /\ IF argv = <<>> THEN Return(Err("EmptyCommand")) ELSE Continue("tempdir")
    /\ UNCHANGED <<inputVars, vanity, createdLinks, cmdEnv, loopVars, sigVars,
                   childVars, exitCode>>

\* lines 39-46: tempfile::tempdir(), exported as SECRETS_FILE_DIR.
CreateTempDir ==
    /\ pc = "tempdir"
    /\ \/ /\ secret_dir' = TRUE
          /\ pc' = "signals"
          /\ UNCHANGED <<result, tmpFiles>>
       \/ Return(Err("CreatingTempDir"))
    /\ UNCHANGED <<inputVars, vanity, createdLinks, cmdEnv, loopVars, sigVars,
                   childVars, exitCode>>

\* Mutant of InstallSignals: the handlers are not installed at this point
\* (the call moved behind the materialization), so the loops start unarmed.
InstallSignalsLate ==
    /\ pc = "signals"
    /\ filesLeft' = Keys(exposures.files)
    /\ Continue("files")
    /\ UNCHANGED <<inputVars, vanity, createdLinks, cmdEnv, buf, cur, specsLeft,
                   envsLeft, sigVars, childVars, exitCode>>

\* line 50: Signals::new(1..32). The call yields a Result; both outcomes are
\* followed.
InstallSignals ==
    /\ pc = "signals"
    /\ requested' = SignalRange
    /\ \/ /\ armed' = SignalRange
          /\ filesLeft' = Keys(exposures.files)
          /\ Continue("files")
       \/ /\ Return(Err("CreatingSignalHandlers"))
          /\ UNCHANGED <<armed, filesLeft>>
    /\ UNCHANGED <<inputVars, vanity, createdLinks, cmdEnv, buf, cur, specsLeft,
                   envsLeft, pending, received, childVars, exitCode>>

\* lines 55-65: one iteration of the loop over exposures.files (a HashMap:
\* the order of the names is arbitrary): look the secret up, read it from
\* the store, decrypt it, read the plaintext to the end of buf.
FetchFileSecret ==
    /\ pc = "files"
    /\ filesLeft # {}
    /\ \E name \in filesLeft :
          IF name \notin secrets
          THEN /\ Return(Err("NoSuchSecret"))
               /\ UNCHANGED <<buf, cur, specsLeft, filesLeft>>
          ELSE \/ /\ Return(Err("FetchingSecretsErr"))
                  /\ UNCHANGED <<buf, cur, specsLeft, filesLeft>>
               \/ /\ Return(Err("SecretDecryptionFailure"))
                  /\ UNCHANGED <<buf, cur, specsLeft, filesLeft>>
               \/ /\ buf' = buf \o Plain(name)
                  /\ cur' = name
                  /\ specsLeft' = exposures.files[name]
                  /\ filesLeft' = filesLeft \ {name}
                  /\ Continue("file_spec")
    /\ UNCHANGED <<inputVars, vanity, createdLinks, cmdEnv, envsLeft, sigVars,
                   childVars, exitCode>>

\* lines 67-88: one iteration of the loop over the file specs of a secret:
\* create or truncate secret_dir/<secret.name>, write buf, symlink the spec's
\* path to it (symlink fails on an existing path), truncate buf.
WriteFileSpec ==
    /\ pc = "file_spec"
    /\ specsLeft # <<>>
    /\ LET p == Head(specsLeft) IN
          \/ /\ Return(Err("CreatingTempFile"))
             /\ UNCHANGED <<vanity, createdLinks, buf, specsLeft>>
          \/ /\ Return(Err("WritingToFile"))
             /\ UNCHANGED <<vanity, createdLinks, buf, specsLeft>>
          \/ /\ vanity[p] # "absent"
             /\ Return(Err("CreatingSymlink"))
             /\ UNCHANGED <<vanity, createdLinks, buf, specsLeft>>
          \/ /\ vanity[p] = "absent"
             /\ tmpFiles' = [tmpFiles EXCEPT ![cur] = [exists |-> TRUE, data |-> buf]]
             /\ vanity' = [vanity EXCEPT ![p] = cur]
             /\ createdLinks' = createdLinks \cup {p}
             /\ buf' = <<>>
             /\ specsLeft' = Tail(specsLeft)
             /\ UNCHANGED <<pc, result, secret_dir>>
    /\ UNCHANGED <<inputVars, cmdEnv, filesLeft, cur, envsLeft, sigVars, childVars,
                   exitCode>>

\* line 67/89: the specs of this secret are done; back to the outer loop.
FileSpecsDone ==
    /\ pc = "file_spec"
    /\ specsLeft = <<>>
    /\ cur' = ""
    /\ Continue("files")
    /\ UNCHANGED <<inputVars, vanity, createdLinks, cmdEnv, buf, filesLeft, specsLeft,
                   envsLeft, sigVars, childVars, exitCode>>

\* lines 89-93: the file loop is done; a fresh buf, then the env loop.
FilesDone ==
    /\ pc = "files"
    /\ filesLeft = {}
    /\ buf' = <<>>
    /\ envsLeft' = Keys(exposures.envs)
    /\ Continue("envs")
    /\ UNCHANGED <<inputVars, vanity, createdLinks, cmdEnv, filesLeft, cur, specsLeft,
                   sigVars, childVars, exitCode>>

\* lines 93-109: one iteration of the loop over exposures.envs: look the
\* secret up, read, decrypt, read the plaintext to a string (read_to_string
\* fails with an io::Error on bytes that are not UTF-8, which line 103 maps
\* to FetchingSecretsErr like every other error of the read), set one
\* variable per env spec on the command, truncate buf.
ExposeEnvSecret ==
    /\ pc = "envs"
    /\ envsLeft # {}
    /\ \E name \in envsLeft :
          IF name \notin secrets
          THEN /\ Return(Err("NoSuchSecret"))
               /\ UNCHANGED <<cmdEnv, buf, envsLeft>>
          ELSE \/ /\ Return(Err("FetchingSecretsErr"))
                  /\ UNCHANGED <<cmdEnv, buf, envsLeft>>
               \/ /\ Return(Err("SecretDecryptionFailure"))
                  /\ UNCHANGED <<cmdEnv, buf, envsLeft>>
               \/ /\ ~ValidUTF8(Plain(name))
                  /\ Return(Err("FetchingSecretsErr"))
                  /\ UNCHANGED <<cmdEnv, buf, envsLeft>>
               \/ /\ ValidUTF8(Plain(name))
                  /\ cmdEnv' = [e \in EnvNames |->
                                   IF e \in Range(exposures.envs[name])
                                   THEN [set |-> TRUE, data |-> buf \o Plain(name)]
                                   ELSE cmdEnv[e]]
                  /\ buf' = <<>>
                  /\ envsLeft' = envsLeft \ {name}
                  /\ Continue("envs")
    /\ UNCHANGED <<inputVars, vanity, createdLinks, filesLeft, cur, specsLeft, sigVars,
                   childVars, exitCode>>

\* line 109-111: the env loop is done.
EnvsDone ==
    /\ pc = "envs"
    /\ envsLeft = {}
    /\ Continue("spawn")
    /\ UNCHANGED <<inputVars, vanity, createdLinks, cmdEnv, loopVars, sigVars,
                   childVars, exitCode>>

\* lines 112-115: cmd.spawn() and the child's PID.
Spawn ==
    /\ pc = "spawn"
    /\ \/ /\ child' = "running"
          /\ pid' \in Pids
          /\ Continue("loop")
       \/ /\ Return(Err("ForkingProcess"))
          /\ UNCHANGED <<child, pid>>
    /\ UNCHANGED <<inputVars, vanity, createdLinks, cmdEnv, loopVars, sigVars,
                   childStatus, killLog, exitCode>>


\* ------------------------------------------------------------------------
\* The kill helper (src/src/process/signals.rs) and the environment
\* ------------------------------------------------------------------------

\* i32/u32 to_string(): decimal digits, with a leading '-' only for a
\* negative number. An argument is kept as (has a leading dash, digits).
NumToString(n) == [dash |-> n < 0, num |-> IF n < 0 THEN -n ELSE n]

\* The command line kill(pid, signal) builds: kill <signal> <pid>.
KillArgs(p, s) == <<NumToString(s), NumToString(p)>>

\* What the kill utility does with its arguments: a first argument with a
\* leading dash names the signal and the rest are PIDs; without one, every
\* argument is a PID and the default signal is sent to each.
KillUtility(args) ==
    IF args[1].dash
    THEN {[pid |-> args[i].num, sig |-> args[1].num] : i \in 2..Len(args)}
    ELSE {[pid |-> args[i].num, sig |-> KillDefaultSignal] : i \in 1..Len(args)}

\* Another process sends a signal to the agent while run_process runs. With
\* a handler installed it becomes pending in the signal stream; without one
\* the default disposition of INT and TERM ends the agent at once, and no
\* destructor runs.
SignalArrives ==
    /\ pc \notin {"done", "exited", "killed"}
    /\ received < MaxSignals
    /\ received' = received + 1
    /\ \E s \in ExternalSignals :
          IF s \in armed
          THEN /\ pending' = pending \cup {s}
               /\ UNCHANGED pc
          ELSE /\ pc' = "killed"
               /\ UNCHANGED pending
    /\ UNCHANGED <<inputVars, secret_dir, tmpFiles, vanity, createdLinks, cmdEnv,
                   loopVars, requested, armed, childVars, result, exitCode>>

\* The child ends on its own while the agent waits for it; the kernel sends
\* SIGCHLD to the agent.
ChildExits ==
    /\ pc = "loop"
    /\ child = "running"
    /\ child' = "exited"
    /\ childStatus' \in ExitCodes
    /\ pending' = pending \cup ({SIGCHLD} \cap armed)
    /\ UNCHANGED <<inputVars, pc, secret_dir, tmpFiles, vanity, createdLinks, cmdEnv,
                   loopVars, requested, armed, received, pid, killLog, result,
                   exitCode>>

\* lines 122-126: the signal branch of the select. kill(pid, signal) runs
\* the helper and waits for it; its exit status is not looked at. The helper
\* is a subprocess of the agent, so its end sends SIGCHLD to the agent. If
\* the helper cannot be run, `?` returns SignallingChildProcess.
SelectSignal ==
    /\ pc = "loop"
    /\ Len(killLog) < MaxKills
    /\ \E s \in pending :
          \/ /\ killLog' = Append(killLog, [signal |-> s, pid |-> pid,
                                            sent |-> KillUtility(KillArgs(pid, s))])
             /\ pending' = (pending \ {s}) \cup ({SIGCHLD} \cap armed)
             /\ Continue("loop")
          \/ /\ pending' = pending \ {s}
             /\ Return(Err("SignallingChildProcess"))
             /\ UNCHANGED killLog
    /\ UNCHANGED <<inputVars, vanity, createdLinks, cmdEnv, loopVars, requested, armed,
                   received, child, pid, childStatus, exitCode>>

\* lines 119-121: the child-exit branch of the select: wait() yields the
\* exit status once the child has ended, or fails with JoiningProcess.
SelectExit ==
    /\ pc = "loop"
    /\ \/ /\ child = "exited"
          /\ Continue("cleanup")
       \/ Return(Err("JoiningProcess"))
    /\ UNCHANGED <<inputVars, vanity, createdLinks, cmdEnv, loopVars, sigVars,
                   childVars, exitCode>>

\* All vanity paths of the file exposures.
SpecPaths == UNION {Range(exposures.files[n]) : n \in Names}

\* lines 130-147: drop(secret_dir), then remove_file on the path of every
\* file spec; a failing unlink (the paths in `failed`) is only printed.
Cleanup ==
    /\ pc = "cleanup"
    /\ secret_dir' = FALSE
    /\ tmpFiles' = [n \in Names |-> NoFile]
    /\ \E failed \in SUBSET SpecPaths :
          vanity' = [p \in Paths |->
                        IF p \in SpecPaths \ failed THEN "absent" ELSE vanity[p]]
    /\ result' = Ok(childStatus)
    /\ pc' = "done"
    /\ UNCHANGED <<inputVars, createdLinks, cmdEnv, loopVars, sigVars, childVars,
                   exitCode>>

\* src/src/main.rs lines 209-248: real_main discards the ExitStatus that
\* cli::process::run returns and ends with Ok(()); main maps Ok to 0 and any
\* error to 1.
MainExit ==
    /\ pc = "done"
    /\ exitCode' = IF result.kind = "Ok" THEN 0 ELSE 1
    /\ pc' = "exited"
    /\ UNCHANGED <<inputVars, secret_dir, tmpFiles, vanity, createdLinks, cmdEnv,
                   loopVars, sigVars, childVars, result>>

\* ------------------------------------------------------------------------
\* The encrypt pipeline (src/src/age.rs encrypt_bytes, SecretManager::create)
\* ------------------------------------------------------------------------

\* Bounds: plaintext length, number of recipient strings, pipe capacity.
MaxPlain == 3
MaxKeys == 2
MaxPipeCap == 3

\* Sizes in scaled units: the age header is a fixed part (version line, MAC
\* line and the nonce that follows) plus one stanza per recipient; a STREAM
\* chunk holds ChunkSize plaintext bytes and is followed by its tag.
HeaderFixed == 1
StanzaSize == 1
ChunkSize == 2

\* Recipient strings: one that parses as x25519, one that parses as ssh,
\* one that parses as neither.
KeyStrings == {"age1", "ssh", "junk"}

\* parse_recipient: x25519 first, then ssh, else InvalidRecipients.
parse_recipient(k) ==
    IF k = "age1" THEN [ok |-> TRUE, kind |-> "x25519"]
    ELSE IF k = "ssh" THEN [ok |-> TRUE, kind |-> "ssh"]
    ELSE [ok |-> FALSE, kind |-> "InvalidRecipients"]

\* lines 107-110: filter_map(|key| parse_recipient(key).ok()).
RECURSIVE ParsedRecipients(_)
ParsedRecipients(keys) ==
    IF keys = <<>> THEN <<>>
    ELSE IF parse_recipient(Head(keys)).ok
         THEN <<Head(keys)>> \o ParsedRecipients(Tail(keys))
         ELSE ParsedRecipients(Tail(keys))

\* The bytes Encryptor::wrap_async_output writes before it returns the
\* stream writer: the fixed part of the header (with the nonce), then one
\* stanza per recipient, which wraps the file key for that recipient's kind.
HeaderBytes(recipients) ==
    [i \in 1..HeaderFixed |-> <<"hdr", i>>] \o
    [i \in 1..(StanzaSize * Len(recipients)) |->
        <<"stanza", parse_recipient(recipients[((i - 1) \div StanzaSize) + 1]).kind>>]

\* One encrypted STREAM chunk: the ciphertext of its bytes, then the tag,
\* which carries the chunk's number and whether it is the last one.
EncryptChunk(bytes, number, last) ==
    [i \in 1..Len(bytes) |-> <<"ct", bytes[i]>>] \o
    << <<IF last THEN "lasttag" ELSE "tag", number>> >>

Min(a, b) == IF a < b THEN a ELSE b

\* Kinds of identity a key file may hold.
IdentityKinds == {"x25519", "ssh"}

\* The stanzas at the front of what follows the fixed part of a header.
RECURSIVE Stanzas(_)
Stanzas(bytes) ==
    IF bytes # <<>> /\ Head(bytes)[1] = "stanza"
    THEN <<Head(bytes)[2]>> \o Stanzas(Tail(bytes))
    ELSE <<>>

\* The STREAM reader: ciphertext bytes up to a tag make one chunk, whose
\* plaintext is released once its tag is verified; the tag must carry the
\* number of the chunk; the chunk under a last-tag must end the stream, and
\* a stream that ends without one is truncated.
RECURSIVE DecryptStream(_, _, _, _)
DecryptStream(bytes, number, acc, pending_chunk) ==
    IF bytes = <<>> THEN [ok |-> FALSE, plain |-> acc]
    ELSE LET b == Head(bytes) IN
         IF b[1] = "ct"
         THEN DecryptStream(Tail(bytes), number, acc, Append(pending_chunk, b[2]))
         ELSE IF b[1] = "tag" /\ b[2] = number
              THEN DecryptStream(Tail(bytes), number + 1, acc \o pending_chunk, <<>>)
         ELSE IF b[1] = "lasttag" /\ b[2] = number /\ Tail(bytes) = <<>>
              THEN [ok |-> TRUE, plain |-> acc \o pending_chunk]
         ELSE [ok |-> FALSE, plain |-> acc]

\* decrypt_bytes followed by reading its reader to the end: the header is
\* parsed (ReadingArmoredSecret), a passphrase file is refused
\* (PassphraseEncryptedFile), some stanza must be unwrapped by one of the
\* identities (DecryptingSecret), then the payload is read.
decrypt_bytes(encrypted_bytes, identities) ==
    IF Len(encrypted_bytes) < HeaderFixed
       \/ \E i \in 1..HeaderFixed : encrypted_bytes[i] # <<"hdr", i>>
    THEN [ok |-> FALSE, err |-> "ReadingArmoredSecret", plain |-> <<>>]
    ELSE LET rest == SubSeq(encrypted_bytes, HeaderFixed + 1, Len(encrypted_bytes))
             stanzas == Stanzas(rest)
             payload == SubSeq(rest, Len(stanzas) + 1, Len(rest))
             body == DecryptStream(payload, 0, <<>>, <<>>)
         IN IF \E i \in 1..Len(stanzas) : stanzas[i] = "scrypt"
            THEN [ok |-> FALSE, err |-> "PassphraseEncryptedFile", plain |-> <<>>]
            ELSE IF ~\E i \in 1..Len(stanzas) : stanzas[i] \in identities
            THEN [ok |-> FALSE, err |-> "DecryptingSecret", plain |-> <<>>]
            ELSE IF ~body.ok
            THEN [ok |-> FALSE, err |-> "ReadingStream", plain |-> body.plain]
            ELSE [ok |-> TRUE, err |-> "", plain |-> body.plain]

VARIABLES
    input,        \* the plaintext the source file holds
    public_keys,  \* the recipient strings of the secret
    pipeCap,      \* capacity of the OS pipe
    encPc,        \* encrypt_bytes: "start" | "header" | "returned" | "failed"
    encErr,       \* the error encrypt_bytes or the caller ended with
    hdrLeft,      \* header bytes not yet written into the pipe
    pipe,         \* bytes in the pipe
    wOpen,        \* the write end is open
    rOpen,        \* the read end is open
    pump,         \* the task: "none" | "copy" | "shutdown" | "done" | "failed" | "panicked"
    pumpErr,      \* the error the task ended with
    pos,          \* input bytes the copy has consumed
    chunk,        \* plaintext buffered in the stream writer
    chunkNo,      \* chunks encrypted so far
    out,          \* encrypted bytes the stream writer still has to write
    caller,       \* create: "none" | "write" | "join" | "done"
    got,          \* bytes the store has read from the pipe
    store         \* the object put under the secret's key (<<>>: none)

encVars == <<input, public_keys, pipeCap, encPc, encErr, hdrLeft, pipe, wOpen, rOpen,
             pump, pumpErr, pos, chunk, chunkNo, out, caller, got, store>>

\* The pipeline when it is not run (specification Spec).
EncIdle ==
    /\ input = <<>>
    /\ public_keys = <<>>
    /\ pipeCap = 1
    /\ encPc = "idle"
    /\ encErr = ""
    /\ hdrLeft = <<>>
    /\ pipe = <<>>
    /\ wOpen = FALSE
    /\ rOpen = FALSE
    /\ pump = "none"
    /\ pumpErr = ""
    /\ pos = 0
    /\ chunk = <<>>
    /\ chunkNo = 0
    /\ out = <<>>
    /\ caller = "none"
    /\ got = <<>>
    /\ store = <<>>

\* create(secret, source_file) is called: any plaintext, any recipient list,
\* any pipe capacity within the bounds.
EncInit ==
    /\ input \in SeqsUpTo({7, 8}, MaxPlain)
    /\ public_keys \in SeqsUpTo(KeyStrings, MaxKeys)
    /\ pipeCap \in 1..MaxPipeCap
    /\ encPc = "start"
    /\ encErr = ""
    /\ hdrLeft = <<>>
    /\ pipe = <<>>
    /\ wOpen = FALSE
    /\ rOpen = FALSE
    /\ pump = "none"
    /\ pumpErr = ""
    /\ pos = 0
    /\ chunk = <<>>
    /\ chunkNo = 0
    /\ out = <<>>
    /\ caller = "none"
    /\ got = <<>>
    /\ store = <<>>

\* run-command when it is not run (specification EncSpec).
ProcIdle ==
    /\ argv = <<>>
    /\ secrets = {}
    /\ exposures = EmptyExposures
    /\ pc = "idle"
    /\ secret_dir = FALSE
    /\ tmpFiles = [n \in Names |-> NoFile]
    /\ vanity = [p \in Paths |-> "absent"]
    /\ createdLinks = {}
    /\ cmdEnv = [e \in EnvNames |-> NoVar]
    /\ buf = <<>>
    /\ filesLeft = {}
    /\ cur = ""
    /\ specsLeft = <<>>
    /\ envsLeft = {}
    /\ requested = {}
    /\ armed = {}
    /\ pending = {}
    /\ received = 0
    /\ child = "none"
    /\ pid = 0
    /\ childStatus = -1
    /\ killLog = <<>>
    /\ result = NoResult
    /\ exitCode = -1


\* age.rs lines 105-113: make the pipe, parse the recipients (strings that
\* do not parse are dropped), fail with NoRecipientsFound when none is left.
\* On an error both pipe ends go out of scope.
EncStart ==
    /\ encPc = "start"
    /\ \/ /\ encPc' = "failed"
          /\ encErr' = "CreatingPipe"
          /\ UNCHANGED <<hdrLeft, wOpen, rOpen>>
       \/ /\ ParsedRecipients(public_keys) = <<>>
          /\ encPc' = "failed"
          /\ encErr' = "NoRecipientsFound"
          /\ UNCHANGED <<hdrLeft, wOpen, rOpen>>
       \/ /\ ParsedRecipients(public_keys) # <<>>
          /\ encPc' = "header"
          /\ wOpen' = TRUE
          /\ rOpen' = TRUE
          /\ hdrLeft' = HeaderBytes(ParsedRecipients(public_keys))
          /\ UNCHANGED encErr
    /\ UNCHANGED <<input, public_keys, pipeCap, pipe, pump, pumpErr, pos, chunk,
                   chunkNo, out, caller, got, store>>

\* age.rs lines 114-119: wrap_async_output(compat_writer).await writes the
\* header and the nonce into the pipe, inside encrypt_bytes, which holds the
\* read end and does not read from it. A write takes what fits and waits
\* while the pipe is full.
WriteHeader ==
    /\ encPc = "header"
    /\ hdrLeft # <<>>
    /\ Len(pipe) < pipeCap
    /\ LET k == Min(Len(hdrLeft), pipeCap - Len(pipe)) IN
          /\ pipe' = pipe \o SubSeq(hdrLeft, 1, k)
          /\ hdrLeft' = SubSeq(hdrLeft, k + 1, Len(hdrLeft))
    /\ UNCHANGED <<input, public_keys, pipeCap, encPc, encErr, wOpen, rOpen, pump,
                   pumpErr, pos, chunk, chunkNo, out, caller, got, store>>

\* age.rs lines 125-137: with the header written, spawn the pump task and
\* return the read end and the join handle; manager/mod.rs line 66: the
\* caller hands the reader to storage.write.
EncReturn ==
    /\ encPc = "header"
    /\ hdrLeft = <<>>
    /\ encPc' = "returned"
    /\ pump' = "copy"
    /\ caller' = "write"
    /\ UNCHANGED <<input, public_keys, pipeCap, encErr, hdrLeft, pipe, wOpen, rOpen,
                   pumpErr, pos, chunk, chunkNo, out, got, store>>

\* age.rs line 126, tokio::io::copy: a byte read from the input goes into
\* the stream writer's chunk buffer, once the writer has nothing pending.
PumpWrite ==
    /\ pump = "copy"
    /\ pos < Len(input)
    /\ out = <<>>
    /\ Len(chunk) < ChunkSize
    /\ chunk' = Append(chunk, input[pos + 1])
    /\ pos' = pos + 1
    /\ UNCHANGED <<input, public_keys, pipeCap, encPc, encErr, hdrLeft, pipe, wOpen,
                   rOpen, pump, pumpErr, chunkNo, out, caller, got, store>>

\* The stream writer encrypts a full chunk when more input follows it.
PumpSealChunk ==
    /\ pump = "copy"
    /\ pos < Len(input)
    /\ out = <<>>
    /\ Len(chunk) = ChunkSize
    /\ out' = EncryptChunk(chunk, chunkNo, FALSE)
    /\ chunk' = <<>>
    /\ chunkNo' = chunkNo + 1
    /\ UNCHANGED <<input, public_keys, pipeCap, encPc, encErr, hdrLeft, pipe, wOpen,
                   rOpen, pump, pumpErr, pos, caller, got, store>>

\* The stream writer writes its pending encrypted bytes into the pipe; it
\* waits while the pipe is full (back-pressure).
PumpFlush ==
    /\ pump \in {"copy", "shutdown"}
    /\ out # <<>>
    /\ Len(pipe) < pipeCap
    /\ LET k == Min(Len(out), pipeCap - Len(pipe)) IN
          /\ pipe' = pipe \o SubSeq(out, 1, k)
          /\ out' = SubSeq(out, k + 1, Len(out))
    /\ UNCHANGED <<input, public_keys, pipeCap, encPc, encErr, hdrLeft, wOpen, rOpen,
                   pump, pumpErr, pos, chunk, chunkNo, caller, got, store>>

\* age.rs lines 126-128: reading the input fails; the task ends with
\* ReadingInput and the stream writer is dropped with what it buffered,
\* which closes the write end.
PumpReadError ==
    /\ pump = "copy"
    /\ pump' = "failed"
    /\ pumpErr' = "ReadingInput"
    /\ wOpen' = FALSE
    /\ chunk' = <<>>
    /\ out' = <<>>
    /\ UNCHANGED <<input, public_keys, pipeCap, encPc, encErr, hdrLeft, pipe, rOpen,
                   pos, chunkNo, caller, got, store>>

\* The spawned task panics: it unwinds, dropping the stream writer with what
\* it buffered, and its join handle yields a JoinError (manager/mod.rs lines
\* 71-72).
PumpPanic ==
    /\ pump \in {"copy", "shutdown"}
    /\ pump' = "panicked"
    /\ wOpen' = FALSE
    /\ chunk' = <<>>
    /\ out' = <<>>
    /\ UNCHANGED <<input, public_keys, pipeCap, encPc, encErr, hdrLeft, pipe, rOpen,
                   pumpErr, pos, chunkNo, caller, got, store>>

\* PumpEof without the final chunk: shutdown() closes the pipe without
\* finishing the stream.
PumpEofNoFinalChunk ==
    /\ pump = "copy"
    /\ pos = Len(input)
    /\ out = <<>>
    /\ pump' = "shutdown"
    /\ out' = <<>>
    /\ chunk' = <<>>
    /\ chunkNo' = chunkNo + 1
    /\ UNCHANGED <<input, public_keys, pipeCap, encPc, encErr, hdrLeft, pipe, wOpen,
                   rOpen, pumpErr, pos, caller, got, store>>

\* age.rs lines 126-131: the input is at its end and the copy has flushed;
\* shutdown() encrypts what the chunk buffer holds as the last chunk.
PumpEof ==
    /\ pump = "copy"
    /\ pos = Len(input)
    /\ out = <<>>
    /\ pump' = "shutdown"
    /\ out' = EncryptChunk(chunk, chunkNo, TRUE)
    /\ chunk' = <<>>
    /\ chunkNo' = chunkNo + 1
    /\ UNCHANGED <<input, public_keys, pipeCap, encPc, encErr, hdrLeft, pipe, wOpen,
                   rOpen, pumpErr, pos, caller, got, store>>

\* age.rs lines 129-134: the last chunk is written; shutdown closes the
\* write end and the task ends with Ok, or closing fails: ClosingOutput.
PumpClose ==
    /\ pump = "shutdown"
    /\ out = <<>>
    /\ wOpen' = FALSE
    /\ \/ /\ pump' = "done"
          /\ UNCHANGED pumpErr
       \/ /\ pump' = "failed"
          /\ pumpErr' = "ClosingOutput"
    /\ UNCHANGED <<input, public_keys, pipeCap, encPc, encErr, hdrLeft, pipe, rOpen,
                   pos, chunk, chunkNo, out, caller, got, store>>

\* secret/s3.rs line 92, read_to_end: the store takes bytes from the pipe.
StoreRead ==
    /\ caller = "write"
    /\ pipe # <<>>
    /\ \E k \in 1..Len(pipe) :
          /\ got' = got \o SubSeq(pipe, 1, k)
          /\ pipe' = SubSeq(pipe, k + 1, Len(pipe))
    /\ UNCHANGED <<input, public_keys, pipeCap, encPc, encErr, hdrLeft, wOpen, rOpen,
                   pump, pumpErr, pos, chunk, chunkNo, out, caller, store>>

\* secret/s3.rs lines 92-101: the pipe is empty and its write end closed:
\* read_to_end ends, and the bytes read are put under the key; a failing put
\* makes create return WritingToStore without awaiting the join handle
\* (manager/mod.rs lines 66-69).
StoreEof ==
    /\ caller = "write"
    /\ pipe = <<>>
    /\ ~wOpen
    /\ rOpen' = FALSE
    /\ \/ /\ store' = got
          /\ caller' = "join"
          /\ UNCHANGED encErr
       \/ /\ caller' = "done"
          /\ encErr' = "WritingToStore"
          /\ UNCHANGED store
    /\ UNCHANGED <<input, public_keys, pipeCap, encPc, hdrLeft, pipe, wOpen, pump,
                   pumpErr, pos, chunk, chunkNo, out, got>>

\* Join that drops what the task returned.
JoinDiscardingResult ==
    /\ caller = "join"
    /\ pump \in {"done", "failed", "panicked"}
    /\ caller' = "done"
    /\ encErr' = ""
    /\ UNCHANGED <<input, public_keys, pipeCap, encPc, hdrLeft, pipe, wOpen, rOpen,
                   pump, pumpErr, pos, chunk, chunkNo, out, got, store>>

\* manager/mod.rs lines 71-73: fut.await; a JoinError (the task panicked)
\* becomes EncryptingSecret(SpawningThread), the task's own error becomes
\* EncryptingSecret.
Join ==
    /\ caller = "join"
    /\ pump \in {"done", "failed", "panicked"}
    /\ caller' = "done"
    /\ encErr' = IF pump = "failed" THEN "EncryptingSecret"
                 ELSE IF pump = "panicked" THEN "SpawningThread"
                 ELSE ""
    /\ UNCHANGED <<input, public_keys, pipeCap, encPc, hdrLeft, pipe, wOpen, rOpen,
                   pump, pumpErr, pos, chunk, chunkNo, out, got, store>>

EncNext ==
    \/ EncStart
    \/ WriteHeader
    \/ EncReturn
    \/ PumpWrite
    \/ PumpSealChunk
    \/ PumpFlush
    \/ PumpReadError
    \/ PumpPanic
    \/ PumpEof
    \/ PumpClose
    \/ StoreRead
    \/ StoreEof
    \/ Join

\* ------------------------------------------------------------------------
\* The persistent mount (src/src/system/mod.rs mount / unmount, with the
\* helpers of src/src/linux.rs and src/src/system/linux.rs)
\* ------------------------------------------------------------------------

\* Bound: invocations of mount or unmount in one behaviour.
MaxCalls == 3

\* Directories an operator passes as the mount point of an invocation: the
\* directory of one generation of secrets. Invocation slots: two commands
\* may run at the same time.
Dirs == {"g1", "g2"}
Inv == {1, 2}

\* Secret.mount_path (secret/mod.rs line 31): the optional vanity path.
mount_path(s) == IF s = "s1" THEN "p1" ELSE "none"

\* A directory or a ramfs without files.
EmptyFs == [n \in Names |-> NoFile]

\* The payload of an age file: the plaintext in STREAM chunks of ChunkSize
\* bytes, the last of them under a last-tag.
RECURSIVE EncryptStream(_, _)
EncryptStream(plain, number) ==
    IF Len(plain) > ChunkSize
    THEN EncryptChunk(SubSeq(plain, 1, ChunkSize), number, FALSE)
         \o EncryptStream(SubSeq(plain, ChunkSize + 1, Len(plain)), number + 1)
    ELSE EncryptChunk(plain, number, TRUE)

\* What an upload of `plain` for the recipients `keys` has put in the store.
AgeFile(plain, keys) == HeaderBytes(ParsedRecipients(keys)) \o EncryptStream(plain, 0)

\* The identities of mgr.private_key_paths: the host holds an x25519 key.
HostIdentities == {"x25519"}

\* Contents of the store: every secret uploaded for the host's key; or the
\* object of s2 cut short; or s2 uploaded for an ssh recipient only.
Stores ==
    LET good == [n \in Names |-> AgeFile(Plain(n), <<"age1">>)]
    IN {good,
        [good EXCEPT !["s2"] = SubSeq(@, 1, Len(@) - 1)],
        [good EXCEPT !["s2"] = AgeFile(Plain("s2"), <<"ssh">>)]}

VARIABLES
    cfg,         \* mgr.secrets: the configured secrets, in order
    objects,     \* mgr.storage: per secret, the bytes stored under its path
    dirExists,   \* per directory: it exists
    layers,      \* per directory: the ramfs mounts stacked on it, with their files
    disk,        \* per directory: the files in the directory itself, under the mounts
    stable,      \* secret_dir: "absent" or the directory the symlink points to
    links,       \* per vanity path: "absent" or <<directory, secret>> it points to
    inv,         \* per slot: [op, mp, pc, left, res] of its invocation
    calls        \* invocations started

mntVars == <<cfg, objects, dirExists, layers, disk, stable, links, inv, calls>>
fsVars == <<dirExists, layers, disk, stable, links>>

IdleInv == [op |-> "none", mp |-> "none", pc |-> "idle", left |-> <<>>, res |-> NoResult]

\* No mount command has run yet on this host.
MntInit ==
    /\ cfg \in {<<"s2">>, <<"s1", "s2">>}
    /\ objects \in Stores
    /\ dirExists \in [Dirs -> BOOLEAN]
    /\ layers = [d \in Dirs |-> <<>>]
    /\ disk = [d \in Dirs |-> EmptyFs]
    /\ stable = "absent"
    /\ links = [p \in Paths |-> "absent"]
    /\ inv = [i \in Inv |-> IdleInv]
    /\ calls = 0

\* The mount commands when they are not run (specifications Spec, EncSpec).
MntIdle ==
    /\ cfg = <<>>
    /\ objects = [n \in Names |-> <<>>]
    /\ dirExists = [d \in Dirs |-> FALSE]
    /\ layers = [d \in Dirs |-> <<>>]
    /\ disk = [d \in Dirs |-> EmptyFs]
    /\ stable = "absent"
    /\ links = [p \in Paths |-> "absent"]
    /\ inv = [i \in Inv |-> IdleInv]
    /\ calls = 0

\* device_mounted: the directory is a mount point.
device_mounted(d) == layers[d] # <<>>

\* What a path under directory d resolves to: the topmost mount, else the
\* directory itself.
Visible(d) == IF layers[d] # <<>> THEN layers[d][Len(layers[d])] ELSE disk[d]

\* No invocation is running.
Quiescent == \A i \in Inv : inv[i].pc \in {"idle", "done"}

\* An invocation returns.
Finish(i, r) == inv' = [inv EXCEPT ![i].pc = "done", ![i].res = r]
Goto(i, next) == inv' = [inv EXCEPT ![i].pc = next]

\* The file d/<n> after OpenOptions::open with create and truncate and the
\* bytes written to it: on the topmost mount, else in the directory.
WriteFile(d, n, data) ==
    IF layers[d] # <<>>
    THEN /\ layers' = [layers EXCEPT ![d][Len(layers[d])][n] = [exists |-> TRUE, data |-> data]]
         /\ UNCHANGED disk
    ELSE /\ disk' = [disk EXCEPT ![d][n] = [exists |-> TRUE, data |-> data]]
         /\ UNCHANGED layers

\* credible system mount / unmount is run by an operator, with a mount
\* point; `alone` tells whether it waits for the other invocations.
StartMount(i, alone) ==
    /\ inv[i].pc \in {"idle", "done"}
    /\ alone => Quiescent
    /\ calls < MaxCalls
    /\ \E d \in Dirs :
          inv' = [inv EXCEPT ![i] = [op |-> "mount", mp |-> d, pc |-> "check",
                                     left |-> cfg, res |-> NoResult]]
    /\ calls' = calls + 1
    /\ UNCHANGED <<cfg, objects, fsVars>>

StartUnmount(i, alone) ==
    /\ inv[i].pc \in {"idle", "done"}
    /\ alone => Quiescent
    /\ calls < MaxCalls
    /\ \E d \in Dirs :
          inv' = [inv EXCEPT ![i] = [op |-> "unmount", mp |-> d, pc |-> "check",
                                     left |-> <<>>, res |-> NoResult]]
    /\ calls' = calls + 1
    /\ UNCHANGED <<cfg, objects, fsVars>>

\* MountCheck that goes on whether or not the mount point is mounted.
MountCheckSkipped(i) ==
    /\ inv[i].op = "mount" /\ inv[i].pc = "check"
    /\ \/ Finish(i, Err("MountCheckFailure"))
       \/ Goto(i, "mkdir")
    /\ UNCHANGED <<cfg, objects, fsVars, calls>>

\* system/mod.rs lines 58-60: device_mounted(mount_point)?, AlreadyMounted.
MountCheck(i) ==
    /\ inv[i].op = "mount" /\ inv[i].pc = "check"
    /\ \/ Finish(i, Err("MountCheckFailure"))
       \/ device_mounted(inv[i].mp) /\ Finish(i, Err("AlreadyMounted"))
       \/ ~device_mounted(inv[i].mp) /\ Goto(i, "mkdir")
    /\ UNCHANGED <<cfg, objects, fsVars, calls>>

\* lines 62-66: create the directory when it is missing; the result of
\* create_dir is dropped.
MountMkdir(i) ==
    /\ inv[i].op = "mount" /\ inv[i].pc = "mkdir"
    /\ IF dirExists[inv[i].mp] THEN UNCHANGED dirExists
       ELSE \/ dirExists' = [dirExists EXCEPT ![inv[i].mp] = TRUE]
            \/ UNCHANGED dirExists
    /\ Goto(i, "ramfs")
    /\ UNCHANGED <<cfg, objects, layers, disk, stable, links, calls>>

\* line 68, mount_persistent_ramfs: the mount command cannot be started
\* (RamfsCreationFailure); or it mounts a fresh ramfs on the directory; or it
\* exits non-zero and mounts nothing, which system/linux.rs lines 49-52
\* report as RamfsCreationFailure and linux.rs lines 25-34 (.status()?, then
\* Ok(())) do not look at.
MountRamfs(i) ==
    /\ inv[i].op = "mount" /\ inv[i].pc = "ramfs"
    /\ \/ /\ Finish(i, Err("RamfsCreationFailure"))
          /\ UNCHANGED layers
       \/ /\ dirExists[inv[i].mp]
          /\ layers' = [layers EXCEPT ![inv[i].mp] = Append(@, EmptyFs)]
          /\ Goto(i, "identities")
       \/ /\ Goto(i, "identities")
          /\ UNCHANGED layers
    /\ UNCHANGED <<cfg, objects, dirExists, disk, stable, links, calls>>

\* line 69: get_identities.
MountIdentities(i) ==
    /\ inv[i].op = "mount" /\ inv[i].pc = "identities"
    /\ \/ Finish(i, Err("DecryptingSecretFailure"))
       \/ Goto(i, "secrets")
    /\ UNCHANGED <<cfg, objects, fsVars, calls>>

\* MountWriteSecret that goes on to the next secret without writing this
\* one.
MountSkipSecret(i) ==
    /\ inv[i].op = "mount" /\ inv[i].pc = "secrets" /\ inv[i].left # <<>>
    /\ inv' = [inv EXCEPT ![i].left = Tail(@)]
    /\ UNCHANGED <<cfg, objects, fsVars, calls>>

\* lines 70-94, one secret: write_secret_to_file (lines 123-156: read from
\* the store, open the file with create and truncate, decrypt, copy, chown)
\* and the vanity symlink of its mount_path.
MountWriteSecret(i) ==
    /\ inv[i].op = "mount" /\ inv[i].pc = "secrets" /\ inv[i].left # <<>>
    /\ LET d == inv[i].mp
           s == Head(inv[i].left)
           p == mount_path(s)
           canCreate == layers[d] # <<>> \/ dirExists[d]
           r == decrypt_bytes(objects[s], HostIdentities)
       IN \/ /\ Finish(i, Err("ReadFromStoreFailure"))
             /\ UNCHANGED <<layers, disk, links>>
          \/ /\ ~canCreate
             /\ Finish(i, Err("CreatingFilesFailure"))
             /\ UNCHANGED <<layers, disk, links>>
          \/ /\ canCreate
             /\ r.err \in {"ReadingArmoredSecret", "PassphraseEncryptedFile", "DecryptingSecret"}
             /\ WriteFile(d, s, <<>>)
             /\ Finish(i, Err("DecryptingSecretFailure"))
             /\ UNCHANGED links
          \/ /\ canCreate
             /\ r.err = "ReadingStream"
             /\ WriteFile(d, s, r.plain)
             /\ Finish(i, Err("ReadFromStoreFailure"))
             /\ UNCHANGED links
          \/ /\ canCreate
             /\ r.ok
             /\ WriteFile(d, s, <<>>)
             /\ Finish(i, Err("ReadFromStoreFailure"))
             /\ UNCHANGED links
          \/ /\ canCreate
             /\ r.ok
             /\ WriteFile(d, s, r.plain)
             /\ Finish(i, Err("PermissionSettingFailure"))
             /\ UNCHANGED links
          \/ /\ canCreate
             /\ r.ok
             /\ WriteFile(d, s, r.plain)
             /\ IF p = "none"
                THEN /\ inv' = [inv EXCEPT ![i].left = Tail(@)]
                     /\ UNCHANGED links
                ELSE IF links[p] = "absent"
                THEN /\ inv' = [inv EXCEPT ![i].left = Tail(@)]
                     /\ links' = [links EXCEPT ![p] = <<d, s>>]
                ELSE /\ Finish(i, Err("SymlinkCreationFailure"))
                     /\ UNCHANGED links
    /\ UNCHANGED <<cfg, objects, dirExists, stable, calls>>

\* lines 95-99: symlink(mount_point, secret_dir), which fails when
\* secret_dir exists; then Ok.
MountStable(i) ==
    /\ inv[i].op = "mount" /\ inv[i].pc = "secrets" /\ inv[i].left = <<>>
    /\ IF stable = "absent"
       THEN /\ stable' = inv[i].mp
            /\ Finish(i, Ok(0))
       ELSE /\ Finish(i, Err("SymlinkCreationFailure"))
            /\ UNCHANGED stable
    /\ UNCHANGED <<cfg, objects, dirExists, layers, disk, links, calls>>

\* lines 107-109: nothing mounted at the mount point: Ok at once.
UnmountCheck(i) ==
    /\ inv[i].op = "unmount" /\ inv[i].pc = "check"
    /\ \/ Finish(i, Err("MountCheckFailure"))
       \/ ~device_mounted(inv[i].mp) /\ Finish(i, Ok(0))
       \/ device_mounted(inv[i].mp) /\ Goto(i, "umount")
    /\ UNCHANGED <<cfg, objects, fsVars, calls>>

\* lines 111-115: the umount command cannot be started (InvokingCommand); or
\* it takes the topmost mount off the mount point; or it exits non-zero
\* (busy, or no longer mounted) and changes nothing: its exit status is not
\* looked at.
UnmountRun(i) ==
    /\ inv[i].op = "unmount" /\ inv[i].pc = "umount"
    /\ \/ /\ Finish(i, Err("InvokingCommand"))
          /\ UNCHANGED layers
       \/ /\ layers[inv[i].mp] # <<>>
          /\ layers' = [layers EXCEPT ![inv[i].mp] = SubSeq(@, 1, Len(@) - 1)]
          /\ Goto(i, "rmlink")
       \/ /\ Goto(i, "rmlink")
          /\ UNCHANGED layers
    /\ UNCHANGED <<cfg, objects, dirExists, disk, stable, links, calls>>

\* lines 116-120: remove_file(secret_dir), RemovingSymlink when there is
\* nothing to remove; then Ok.
UnmountRemove(i) ==
    /\ inv[i].op = "unmount" /\ inv[i].pc = "rmlink"
    /\ IF stable = "absent"
       THEN /\ Finish(i, Err("RemovingSymlink"))
            /\ UNCHANGED stable
       ELSE /\ stable' = "absent"
            /\ Finish(i, Ok(0))
    /\ UNCHANGED <<cfg, objects, dirExists, layers, disk, links, calls>>

\* ------------------------------------------------------------------------
\* Assembling the exposures (src/src/cli/state.rs get_exposures with
\* Exposures::add_config, and src/src/cli/state/builder.rs StateBuilder)
\* ------------------------------------------------------------------------

\* Bound: entries of the first exposure input (the second holds at most one).
MaxEntries == 2

\* FileExposeArgs.vanity_path is optional; "none" stands for None.
FileArgs == [kind : {"file"}, target : Paths \cup {"none"}]
InputEntry == [secret_name : Names, exposure_spec : FileArgs \cup EnvSpecs]

\* util.rs partition_specs: the file specs and the env specs of an input, in
\* their order.
RECURSIVE partition_specs(_)
partition_specs(items) ==
    IF items = <<>> THEN [files |-> <<>>, envs |-> <<>>]
    ELSE LET rest == partition_specs(Tail(items))
             spec == Head(items).exposure_spec
         IN IF spec.kind = "file"
            THEN [rest EXCEPT !.files = <<spec.target>> \o @]
            ELSE [rest EXCEPT !.envs = <<spec.target>> \o @]

\* The loop of add_file_exposures (builder.rs lines 148-159): every
\* vanity_path that is set is inserted into seen_file_paths; the first one
\* that was already there ends the loop with DuplicatePath.
RECURSIVE SeeFilePaths(_, _)
SeeFilePaths(seen, args) ==
    IF args = <<>> THEN [seen |-> seen, dup |-> "none"]
    ELSE IF Head(args) = "none" THEN SeeFilePaths(seen, Tail(args))
    ELSE IF Head(args) \in seen THEN [seen |-> seen, dup |-> Head(args)]
    ELSE SeeFilePaths(seen \cup {Head(args)}, Tail(args))

\* The loop of add_env_exposures (builder.rs lines 170-177).
RECURSIVE SeeEnvNames(_, _)
SeeEnvNames(seen, args) ==
    IF args = <<>> THEN [seen |-> seen, dup |-> "none"]
    ELSE IF Head(args) \in seen THEN [seen |-> seen, dup |-> Head(args)]
    ELSE SeeEnvNames(seen \cup {Head(args)}, Tail(args))

\* All the specs of one of the two mappings of an Exposures value.
RECURSIVE AllSpecs(_, _)
AllSpecs(m, names) ==
    IF names = {} THEN <<>>
    ELSE LET n == CHOOSE x \in names : TRUE
         IN m[n] \o AllSpecs(m, names \ {n})

\* A value occurs twice in a list ("none" is no value).
HasDuplicate(q) ==
    \E i, j \in 1..Len(q) : i < j /\ q[i] = q[j] /\ q[i] # "none"

DuplicatePath(exp) == HasDuplicate(AllSpecs(exp.files, Names))
DuplicateEnvName(exp) == HasDuplicate(AllSpecs(exp.envs, Names))

VARIABLES
    inA, inB,          \* two exposure inputs: config files or the CLI flags
    expPc,             \* "idle" | "first" | "second" | "builder"
    expAB,             \* get_exposures: the Exposures when A is added before B
    expBA,             \* get_exposures: the Exposures when B is added before A
    seen_file_paths,   \* StateBuilder
    seen_env_vars,     \* StateBuilder
    sbItems,           \* StateBuilder: the items handed on to its exposures
    sbTodo,            \* calls of the builder still to come
    sbResult           \* what the last call of the builder returned

expVars == <<inA, inB, expPc, expAB, expBA, seen_file_paths, seen_env_vars,
             sbItems, sbTodo, sbResult>>

\* Result<(), StateBuilderError>: not called yet, Ok(()), or the error with
\* the path or the name it carries.
SbNone == [kind |-> "none", err |-> "", arg |-> ""]
SbOk == [kind |-> "Ok", err |-> "", arg |-> ""]
SbErr(e, a) == [kind |-> "Err", err |-> e, arg |-> a]

BuilderCalls == {"A", "B"} \X {"file", "env"}

ExpInit ==
    /\ inA \in SeqsUpTo(InputEntry, MaxEntries)
    /\ inB \in SeqsUpTo(InputEntry, 1)
    /\ expPc = "first"
    /\ expAB = EmptyExposures
    /\ expBA = EmptyExposures
    /\ seen_file_paths = {}
    /\ seen_env_vars = {}
    /\ sbItems = [files |-> <<>>, envs |-> <<>>]
    /\ sbTodo = BuilderCalls
    /\ sbResult = SbNone

\* No exposures are being assembled (the other specifications).
ExpIdle ==
    /\ inA = <<>>
    /\ inB = <<>>
    /\ expPc = "idle"
    /\ expAB = EmptyExposures
    /\ expBA = EmptyExposures
    /\ seen_file_paths = {}
    /\ seen_env_vars = {}
    /\ sbItems = [files |-> <<>>, envs |-> <<>>]
    /\ sbTodo = {}
    /\ sbResult = SbNone

\* cli/state.rs lines 61-73, first input: add_config on the empty Exposures;
\* the run with the inputs in the other order is followed next to it.
GetExposuresFirst ==
    /\ expPc = "first"
    /\ expAB' = add_config(expAB, inA)
    /\ expBA' = add_config(expBA, inB)
    /\ expPc' = "second"
    /\ UNCHANGED <<inA, inB, seen_file_paths, seen_env_vars, sbItems, sbTodo, sbResult>>

\* cli/state.rs lines 61-75, second input, and Ok(exposures).
GetExposuresSecond ==
    /\ expPc = "second"
    /\ expAB' = add_config(expAB, inB)
    /\ expBA' = add_config(expBA, inA)
    /\ expPc' = "builder"
    /\ UNCHANGED <<inA, inB, seen_file_paths, seen_env_vars, sbItems, sbTodo, sbResult>>

\* builder.rs lines 143-163: add_file_exposures with the file specs of one
\* input; the calls come in any order, until one of them fails.
add_file_exposures ==
    /\ expPc = "builder"
    /\ sbResult.kind # "Err"
    /\ \E w \in {"A", "B"} :
          /\ <<w, "file">> \in sbTodo
          /\ LET args == partition_specs(IF w = "A" THEN inA ELSE inB).files
                 r == SeeFilePaths(seen_file_paths, args)
             IN /\ seen_file_paths' = r.seen
                /\ IF r.dup # "none"
                   THEN /\ sbResult' = SbErr("DuplicatePath", r.dup)
                        /\ UNCHANGED sbItems
                   ELSE /\ sbResult' = SbOk
                        /\ sbItems' = [sbItems EXCEPT !.files = @ \o args]
          /\ sbTodo' = sbTodo \ {<<w, "file">>}
    /\ UNCHANGED <<inA, inB, expPc, expAB, expBA, seen_env_vars>>

\* builder.rs lines 165-180: add_env_exposures with the env specs of one
\* input.
add_env_exposures ==
    /\ expPc = "builder"
    /\ sbResult.kind # "Err"
    /\ \E w \in {"A", "B"} :
          /\ <<w, "env">> \in sbTodo
          /\ LET args == partition_specs(IF w = "A" THEN inA ELSE inB).envs
                 r == SeeEnvNames(seen_env_vars, args)
             IN /\ seen_env_vars' = r.seen
                /\ IF r.dup # "none"
                   THEN /\ sbResult' = SbErr("DuplicateEnvName", r.dup)
                        /\ UNCHANGED sbItems
                   ELSE /\ sbResult' = SbOk
                        /\ sbItems' = [sbItems EXCEPT !.envs = @ \o args]
          /\ sbTodo' = sbTodo \ {<<w, "env">>}
    /\ UNCHANGED <<inA, inB, expPc, expAB, expBA, seen_file_paths>>

\* ------------------------------------------------------------------------
\* Editing a secret (src/src/manager/mod.rs SecretManager::edit)
\* ------------------------------------------------------------------------

\* What an editor may leave in the file, and the statuses it may exit with.
EditedTexts == {<<7>>, <<8, 9, 7>>}
EditorStatuses == {0, 1}

\* A file encrypted with a passphrase (age -p): its header holds one scrypt
\* stanza, which Decryptor::new_async reports as Decryptor::Passphrase.
PassphraseFile(plain) ==
    [i \in 1..HeaderFixed |-> <<"hdr", i>>] \o << <<"stanza", "scrypt">> >>
    \o EncryptStream(plain, 0)

\* What the store may hold under the path of the secret that is edited: an
\* upload for the host's key, one cut short, one for an ssh recipient, one
\* encrypted with a passphrase.
EditObjects(n) ==
    {AgeFile(Plain(n), <<"age1">>),
     SubSeq(AgeFile(Plain(n), <<"age1">>), 1, Len(AgeFile(Plain(n), <<"age1">>)) - 1),
     AgeFile(Plain(n), <<"ssh">>),
     PassphraseFile(Plain(n))}

\* The steps of edit that the log records, in the order of the code.
EditOrder == <<"fetch", "decrypt", "write_temp", "editor", "encrypt", "store">>

VARIABLES
    edName,       \* secret_name
    edSecrets,    \* names of self.secrets
    edKeys,       \* secret.encryption_keys
    edIds,        \* the kinds of identity get_identities yields
    edPc,
    edStore,      \* the bytes the store holds under secret.path
    edTemp,       \* the NamedTempFile: [exists, data]
    edStatus,     \* the exit status of the editor (-1: it has not run)
    edCipher,     \* what encrypt_bytes makes of the temp file
    edTask,       \* the encrypt task: "none" | "ok" | "failed"
    edLog,        \* the steps done so far
    edResult,     \* what edit returned
    edCause       \* the DecryptionError or EncryptionError inside the error

edVars == <<edName, edSecrets, edKeys, edIds, edPc, edStore, edTemp, edStatus,
            edCipher, edTask, edLog, edResult, edCause>>
edInputs == <<edName, edSecrets, edKeys, edIds>>

EditInit ==
    /\ edName \in Names
    /\ edSecrets \in {{"s1"}, Names}
    /\ edKeys \in {<<"age1">>, <<"junk">>, <<"age1", "ssh">>}
    /\ edIds \in SUBSET IdentityKinds
    /\ edPc = "find"
    /\ edStore \in EditObjects(edName)
    /\ edTemp = NoFile
    /\ edStatus = -1
    /\ edCipher = <<>>
    /\ edTask = "none"
    /\ edLog = <<>>
    /\ edResult = NoResult
    /\ edCause = ""

\* No secret is being edited (the other specifications).
EditIdle ==
    /\ edName = ""
    /\ edSecrets = {}
    /\ edKeys = <<>>
    /\ edIds = {}
    /\ edPc = "idle"
    /\ edStore = <<>>
    /\ edTemp = NoFile
    /\ edStatus = -1
    /\ edCipher = <<>>
    /\ edTask = "none"
    /\ edLog = <<>>
    /\ edResult = NoResult
    /\ edCause = ""

\* EditReturn that leaves the temp file where it is.
EditReturnKeeping(r, cause) ==
    /\ edResult' = r
    /\ edCause' = cause
    /\ edPc' = "done"
    /\ edTemp' = edTemp

\* edit returns: temp_file goes out of scope, which removes the file.
EditReturn(r, cause) ==
    /\ edResult' = r
    /\ edCause' = cause
    /\ edPc' = "done"
    /\ edTemp' = NoFile

EditContinue(next) ==
    /\ edPc' = next
    /\ UNCHANGED <<edResult, edCause>>

\* lines 83-88: find the secret, read the identities.
EditFind ==
    /\ edPc = "find"
    /\ IF edName \notin edSecrets
       THEN EditReturn(Err("NoSuchSecret"), "")
       ELSE \/ EditReturn(Err("DecryptingSecret"), "ReadingSecretKey")
            \/ EditContinue("fetch") /\ UNCHANGED edTemp
    /\ UNCHANGED <<edInputs, edStore, edStatus, edCipher, edTask, edLog>>

\* lines 90-94: storage.read; its error is mapped to WritingToStore.
EditFetch ==
    /\ edPc = "fetch"
    /\ \/ /\ EditReturn(Err("WritingToStore"), "")
          /\ UNCHANGED edLog
       \/ /\ EditContinue("tempfile")
          /\ edLog' = Append(edLog, "fetch")
          /\ UNCHANGED edTemp
    /\ UNCHANGED <<edInputs, edStore, edStatus, edCipher, edTask>>

\* lines 95-101: NamedTempFile::new and File::create on its path.
EditTempFile ==
    /\ edPc = "tempfile"
    /\ \/ EditReturn(Err("CreatingTempFile"), "")
       \/ EditReturn(Err("OpeningTempFile"), "")
       \/ /\ edTemp' = [exists |-> TRUE, data |-> <<>>]
          /\ EditContinue("decrypt")
    /\ UNCHANGED <<edInputs, edStore, edStatus, edCipher, edTask, edLog>>

\* EditDecrypt that asks for the passphrase of a passphrase file and goes
\* on with its plaintext.
EditDecryptPrompting ==
    /\ edPc = "decrypt"
    /\ LET r == decrypt_bytes(edStore, edIds) IN
          IF r.err = "PassphraseEncryptedFile"
          THEN /\ edTemp' = [exists |-> TRUE, data |-> Plain(edName)]
               /\ EditContinue("editor")
               /\ edLog' = edLog \o <<"decrypt", "write_temp">>
          ELSE IF r.err \in {"ReadingArmoredSecret", "DecryptingSecret"}
          THEN /\ EditReturn(Err("DecryptingSecret"), r.err)
               /\ UNCHANGED edLog
          ELSE IF ~r.ok
          THEN /\ EditReturn(Err("OpeningTempFile"), "")
               /\ edLog' = Append(edLog, "decrypt")
          ELSE /\ edTemp' = [exists |-> TRUE, data |-> r.plain]
               /\ EditContinue("editor")
               /\ edLog' = edLog \o <<"decrypt", "write_temp">>
    /\ UNCHANGED <<edInputs, edStore, edStatus, edCipher, edTask>>

\* lines 102-105: decrypt_bytes, whose error returns at once, and the copy
\* of the plaintext into the temp file, which fails when the stream does.
EditDecrypt ==
    /\ edPc = "decrypt"
    /\ LET r == decrypt_bytes(edStore, edIds) IN
          IF r.err \in {"ReadingArmoredSecret", "PassphraseEncryptedFile", "DecryptingSecret"}
          THEN /\ EditReturn(Err("DecryptingSecret"), r.err)
               /\ UNCHANGED edLog
          ELSE IF ~r.ok
          THEN /\ EditReturn(Err("OpeningTempFile"), "")
               /\ edLog' = Append(edLog, "decrypt")
          ELSE /\ edTemp' = [exists |-> TRUE, data |-> r.plain]
               /\ EditContinue("editor")
               /\ edLog' = edLog \o <<"decrypt", "write_temp">>
    /\ UNCHANGED <<edInputs, edStore, edStatus, edCipher, edTask>>

\* lines 107-111: the editor runs on the temp file; it may rewrite the file
\* whatever status it exits with.
EditRunEditor ==
    /\ edPc = "editor"
    /\ \/ /\ EditReturn(Err("InvokingEditor"), "")
          /\ UNCHANGED <<edStatus, edLog>>
       \/ /\ edStatus' \in EditorStatuses
          /\ \E text \in EditedTexts \cup {edTemp.data} :
                edTemp' = [exists |-> TRUE, data |-> text]
          /\ edLog' = Append(edLog, "editor")
          /\ EditContinue("check")
    /\ UNCHANGED <<edInputs, edStore, edCipher, edTask>>

\* EditCheckEditor that does not look at the status of the editor.
EditCheckSkipped ==
    /\ edPc = "check"
    /\ EditContinue("encrypt")
    /\ UNCHANGED <<edInputs, edStore, edTemp, edStatus, edCipher, edTask, edLog>>

\* lines 113-115: a status other than success is EditorBadExit.
EditCheckEditor ==
    /\ edPc = "check"
    /\ IF edStatus # 0
       THEN EditReturn(Err("EditorBadExit"), "")
       ELSE EditContinue("encrypt") /\ UNCHANGED edTemp
    /\ UNCHANGED <<edInputs, edStore, edStatus, edCipher, edTask, edLog>>

\* lines 117-120: reopen the temp file; encrypt_bytes for the keys of the
\* secret, which fails when no key parses.
EditEncrypt ==
    /\ edPc = "encrypt"
    /\ \/ /\ EditReturn(Err("OpeningTempFile"), "")
          /\ UNCHANGED <<edCipher, edLog>>
       \/ /\ ParsedRecipients(edKeys) = <<>>
          /\ EditReturn(Err("EncryptingSecret"), "NoRecipientsFound")
          /\ UNCHANGED <<edCipher, edLog>>
       \/ /\ ParsedRecipients(edKeys) # <<>>
          /\ edCipher' = AgeFile(edTemp.data, edKeys)
          /\ edLog' = Append(edLog, "encrypt")
          /\ EditContinue("write")
          /\ UNCHANGED edTemp
    /\ UNCHANGED <<edInputs, edStore, edStatus, edTask>>

\* lines 121-124: storage.write reads the ciphertext to its end and puts it
\* under secret.path; when the encrypt task fails on the way the reader ends
\* early and what was read is put.
EditWriteStore ==
    /\ edPc = "write"
    /\ \/ /\ EditReturn(Err("WritingToStore"), "")
          /\ UNCHANGED <<edStore, edTask, edLog>>
       \/ /\ edStore' = edCipher
          /\ edTask' = "ok"
          /\ edLog' = Append(edLog, "store")
          /\ EditContinue("join")
          /\ UNCHANGED edTemp
       \/ /\ edStore' = HeaderBytes(ParsedRecipients(edKeys))
          /\ edTask' = "failed"
          /\ edLog' = Append(edLog, "store")
          /\ EditContinue("join")
          /\ UNCHANGED edTemp
    /\ UNCHANGED <<edInputs, edStatus, edCipher>>

\* lines 126-130: the result of the encrypt task, then Ok.
EditJoin ==
    /\ edPc = "join"
    /\ IF edTask = "ok"
       THEN EditReturn(Ok(0), "")
       ELSE \/ EditReturn(Err("EncryptingSecret"), "ReadingInput")
            \/ EditReturn(Err("EncryptingSecret"), "SpawningThread")
    /\ UNCHANGED <<edInputs, edStore, edStatus, edCipher, edTask, edLog>>

\* ------------------------------------------------------------------------
\* Specifications
\* ------------------------------------------------------------------------

vars == <<procVars, encVars, mntVars, expVars, edVars>>

\* What a command leaves alone: the state of the other commands.
notProcVars == <<encVars, mntVars, expVars, edVars>>
notEncVars == <<procVars, mntVars, expVars, edVars>>
notMntVars == <<procVars, encVars, expVars, edVars>>
notExpVars == <<procVars, encVars, mntVars, edVars>>
notEdVars == <<procVars, encVars, mntVars, expVars>>

Init == ProcInit /\ EncIdle /\ MntIdle /\ ExpIdle /\ EditIdle

Next ==
    \/ Start /\ UNCHANGED notProcVars
    \/ CreateTempDir /\ UNCHANGED notProcVars
    \/ InstallSignals /\ UNCHANGED notProcVars
    \/ FetchFileSecret /\ UNCHANGED notProcVars
    \/ WriteFileSpec /\ UNCHANGED notProcVars
    \/ FileSpecsDone /\ UNCHANGED notProcVars
    \/ FilesDone /\ UNCHANGED notProcVars
    \/ ExposeEnvSecret /\ UNCHANGED notProcVars
    \/ EnvsDone /\ UNCHANGED notProcVars
    \/ Spawn /\ UNCHANGED notProcVars
    \/ SignalArrives /\ UNCHANGED notProcVars
    \/ ChildExits /\ UNCHANGED notProcVars
    \/ SelectSignal /\ UNCHANGED notProcVars
    \/ SelectExit /\ UNCHANGED notProcVars
    \/ Cleanup /\ UNCHANGED notProcVars
    \/ MainExit /\ UNCHANGED notProcVars

\* run-command: one invocation of the agent, from run_process to exit.
Spec == Init /\ [][Next]_vars

EncSpecInit == EncInit /\ ProcIdle /\ MntIdle /\ ExpIdle /\ EditIdle

EncSpecNext ==
    \/ EncStart /\ UNCHANGED notEncVars
    \/ WriteHeader /\ UNCHANGED notEncVars
    \/ EncReturn /\ UNCHANGED notEncVars
    \/ PumpWrite /\ UNCHANGED notEncVars
    \/ PumpSealChunk /\ UNCHANGED notEncVars
    \/ PumpFlush /\ UNCHANGED notEncVars
    \/ PumpReadError /\ UNCHANGED notEncVars
    \/ PumpPanic /\ UNCHANGED notEncVars
    \/ PumpEof /\ UNCHANGED notEncVars
    \/ PumpClose /\ UNCHANGED notEncVars
    \/ StoreRead /\ UNCHANGED notEncVars
    \/ StoreEof /\ UNCHANGED notEncVars
    \/ Join /\ UNCHANGED notEncVars

\* create: one encryption of a source file into the store.
EncSpec == EncSpecInit /\ [][EncSpecNext]_vars

MountInit == MntInit /\ ProcIdle /\ EncIdle /\ ExpIdle /\ EditIdle

MountSeqNext ==
    \/ StartMount(1, TRUE) /\ UNCHANGED notMntVars
    \/ StartUnmount(1, TRUE) /\ UNCHANGED notMntVars
    \/ MountCheck(1) /\ UNCHANGED notMntVars
    \/ MountMkdir(1) /\ UNCHANGED notMntVars
    \/ MountRamfs(1) /\ UNCHANGED notMntVars
    \/ MountIdentities(1) /\ UNCHANGED notMntVars
    \/ MountWriteSecret(1) /\ UNCHANGED notMntVars
    \/ MountStable(1) /\ UNCHANGED notMntVars
    \/ UnmountCheck(1) /\ UNCHANGED notMntVars
    \/ UnmountRun(1) /\ UNCHANGED notMntVars
    \/ UnmountRemove(1) /\ UNCHANGED notMntVars

\* system mount / unmount, one invocation after the other.
MountSeqSpec == MountInit /\ [][MountSeqNext]_vars

MountNext ==
    \/ \E i \in Inv : StartMount(i, FALSE) /\ UNCHANGED notMntVars
    \/ \E i \in Inv : StartUnmount(i, FALSE) /\ UNCHANGED notMntVars
    \/ \E i \in Inv : MountCheck(i) /\ UNCHANGED notMntVars
    \/ \E i \in Inv : MountMkdir(i) /\ UNCHANGED notMntVars
    \/ \E i \in Inv : MountRamfs(i) /\ UNCHANGED notMntVars
    \/ \E i \in Inv : MountIdentities(i) /\ UNCHANGED notMntVars
    \/ \E i \in Inv : MountWriteSecret(i) /\ UNCHANGED notMntVars
    \/ \E i \in Inv : MountStable(i) /\ UNCHANGED notMntVars
    \/ \E i \in Inv : UnmountCheck(i) /\ UNCHANGED notMntVars
    \/ \E i \in Inv : UnmountRun(i) /\ UNCHANGED notMntVars
    \/ \E i \in Inv : UnmountRemove(i) /\ UNCHANGED notMntVars

\* system mount / unmount, invocations running at the same time.
MountSpec == MountInit /\ [][MountNext]_vars

ExpSpecInit == ExpInit /\ ProcIdle /\ EncIdle /\ MntIdle /\ EditIdle

ExpSpecNext ==
    \/ GetExposuresFirst /\ UNCHANGED notExpVars
    \/ GetExposuresSecond /\ UNCHANGED notExpVars
    \/ add_file_exposures /\ UNCHANGED notExpVars
    \/ add_env_exposures /\ UNCHANGED notExpVars

\* Two exposure inputs assembled by get_exposures and by the StateBuilder.
ExpSpec == ExpSpecInit /\ [][ExpSpecNext]_vars

EditSpecInit == EditInit /\ ProcIdle /\ EncIdle /\ MntIdle /\ ExpIdle

EditSpecNext ==
    \/ EditFind /\ UNCHANGED notEdVars
    \/ EditFetch /\ UNCHANGED notEdVars
    \/ EditTempFile /\ UNCHANGED notEdVars
    \/ EditDecrypt /\ UNCHANGED notEdVars
    \/ EditRunEditor /\ UNCHANGED notEdVars
    \/ EditCheckEditor /\ UNCHANGED notEdVars
    \/ EditEncrypt /\ UNCHANGED notEdVars
    \/ EditWriteStore /\ UNCHANGED notEdVars
    \/ EditJoin /\ UNCHANGED notEdVars

\* secret edit: one run of SecretManager::edit.
EditSpec == EditSpecInit /\ [][EditSpecNext]_vars

\* ------------------------------------------------------------------------
\* Claims about run-command
\* ------------------------------------------------------------------------

Returned == pc \in {"done", "exited"}

PlaintextExists ==
    \/ \E n \in Names : tmpFiles[n].exists
    \/ \E e \in EnvNames : cmdEnv[e].set
    \/ buf # <<>>

\* C1: once run_process has returned, on whatever path, no file is left under
\* the tmpdir and no vanity symlink this run created still points into it.
C1_TeardownOnEveryExit ==
    Returned =>
        /\ \A n \in Names : ~tmpFiles[n].exists
        /\ \A p \in createdLinks : vanity[p] \notin Names

\* C2: whenever plaintext of this run exists (in the buffer, in a tmpdir
\* file or in the child's environment), the signal handlers are armed.
C2_HandlersBeforePlaintext ==
    PlaintextExists => (armed # {} /\ ExternalSignals \subseteq armed)

C2_Witness ==
    /\ \E n \in Names : tmpFiles[n].exists /\ tmpFiles[n].data # <<>>
    /\ \E e \in EnvNames : cmdEnv[e].set
    /\ ExternalSignals \subseteq armed

\* C3: whenever a plaintext file exists in the tmpdir, every Env exposure
\* has already been set on the command.
C3_EnvBeforeFiles ==
    (\E n \in Names : tmpFiles[n].exists) =>
        \A n \in Names : \A e \in Range(exposures.envs[n]) : cmdEnv[e].set

PreSpawnErrors ==
    {"EmptyCommand", "CreatingTempDir", "CreatingSignalHandlers", "NoSuchSecret",
     "FetchingSecretsErr", "SecretDecryptionFailure", "CreatingTempFile",
     "WritingToFile", "CreatingSymlink", "ForkingProcess"}

AllMaterialized ==
    /\ \A n \in Names : \A p \in Range(exposures.files[n]) :
           tmpFiles[n].exists /\ vanity[p] = n
    /\ \A n \in Names : \A e \in Range(exposures.envs[n]) : cmdEnv[e].set

\* C4: while the spawned child is waited for, every File and Env exposure
\* is materialized; and when a step before the spawn failed, no child was
\* spawned, the tmpdir is gone with its files, and the error is the result.
C4_SpawnOnlyAfterMaterialization ==
    /\ (child # "none" /\ pc = "loop") => AllMaterialized
    /\ (result.kind = "Err" /\ result.err \in PreSpawnErrors) =>
           /\ child = "none"
           /\ ~secret_dir
           /\ \A n \in Names : ~tmpFiles[n].exists
           /\ Returned

C4_Witness ==
    /\ result.kind = "Err"
    /\ result.err \in {"FetchingSecretsErr", "SecretDecryptionFailure", "ForkingProcess"}
    /\ createdLinks # {}
    /\ child = "none"
    /\ ~secret_dir

\* C5: every kill invocation sends exactly the received signal to exactly
\* the child's PID.
C5_ForwardsSignalToChildOnly ==
    \A i \in 1..Len(killLog) :
        killLog[i].sent = {[pid |-> killLog[i].pid, sig |-> killLog[i].signal]}

\* C6: run_process never returns an error caused by forwarding a signal.
C6_ForwardFailureSwallowed ==
    ~(result.kind = "Err" /\ result.err = "SignallingChildProcess")

\* C7: once the child is spawned, run_process returns only after the child
\* has ended, and then with the child's exit status (a failure of wait()
\* itself set aside).
C7_ReturnsChildStatusAfterExit ==
    (Returned /\ child # "none" /\ result.err # "JoiningProcess") =>
        (child = "exited" /\ result = Ok(childStatus))

\* C8: the agent's exit code is the child's exit code when run_process
\* succeeded, and 1 when it failed.
C8_ExitCodePassesThrough ==
    exitCode # -1 =>
        exitCode = (IF result.kind = "Ok" THEN result.code ELSE 1)

\* Signals user code cannot catch (KILL, STOP), and the signals the runner
\* has to handle (HUP INT QUIT ABRT TERM TSTP CONT USR1 USR2).
Uncatchable == {9, 19}
RequiredSignals == {1, 2, 3, 6, 15, 20, 18, 10, 12}

\* C9: the set handed to the handler registration holds no uncatchable
\* signal and holds every required one.
C9_RegisteredSignalsCatchable ==
    requested # {} =>
        (requested \cap Uncatchable = {} /\ RequiredSignals \subseteq requested)


\* ------------------------------------------------------------------------
\* Claims about the encrypt pipeline
\* ------------------------------------------------------------------------

EncFinished == encPc = "failed" \/ caller = "done"

\* C10: the pipe never holds more than its capacity, and the pipeline is
\* never stuck: until encrypt_bytes has failed or create has returned, some
\* step of encrypt_bytes, of the pump or of the store can be taken.
C10_EncryptNeverDeadlocks ==
    /\ Len(pipe) <= pipeCap
    /\ EncFinished \/ ENABLED EncNext

\* C11: when create returns success, the object in the store is the whole
\* encoder output in order, so that decrypt_bytes with any identity set
\* that matches one of the recipients yields exactly the plaintext; and the
\* store sees the end of the pipe only once the task has ended.
C11_RoundTrip ==
    /\ (caller = "done" /\ encErr = "") =>
          /\ store = HeaderBytes(ParsedRecipients(public_keys)) \o
                     SubSeq(store, Len(HeaderBytes(ParsedRecipients(public_keys))) + 1,
                            Len(store))
          /\ \A I \in SUBSET IdentityKinds :
                (\E i \in 1..Len(ParsedRecipients(public_keys)) :
                    parse_recipient(ParsedRecipients(public_keys)[i]).kind \in I)
                => decrypt_bytes(store, I) = [ok |-> TRUE, err |-> "", plain |-> input]
    /\ caller \in {"join", "done"} => pump \in {"done", "failed", "panicked"}

C11_Witness ==
    /\ caller = "done"
    /\ encErr = ""
    /\ Len(input) = MaxPlain
    /\ Len(ParsedRecipients(public_keys)) = 2
    /\ decrypt_bytes(store, {"ssh"}).plain = input

\* C12: create returns success only if the store write succeeded and the
\* task ended without error: it leaves the store write for the end only
\* with WritingToStore, otherwise it has awaited the task, and a task that
\* failed or panicked makes it return an encryption error.
C12_SuccessNeedsStoreAndTask ==
    /\ (caller = "done" /\ encErr = "") => (pump = "done" /\ pumpErr = "" /\ store = got)
    /\ (caller = "done" /\ encErr # "WritingToStore") =>
          pump \in {"done", "failed", "panicked"}
    /\ (caller = "done" /\ pump \in {"failed", "panicked"}) =>
          encErr \in {"WritingToStore", "EncryptingSecret", "SpawningThread"}

C12_Witness ==
    /\ caller = "done"
    /\ pump \in {"failed", "panicked"}
    /\ encErr \in {"EncryptingSecret", "SpawningThread"}
    /\ store # <<>>

\* ------------------------------------------------------------------------
\* Claims about the persistent mount
\* ------------------------------------------------------------------------

\* C13: plaintext is only ever written to a ramfs: no file of a directory
\* itself, under its mounts, holds plaintext bytes, because mount writes
\* secrets only after the ramfs was mounted on the mount point.
C13_PlaintextOnlyOnRamfs ==
    \A d \in Dirs : \A n \in Names : disk[d][n].data = <<>>

\* C14: in every reachable state the stable secret directory does not
\* exist, or it is a symlink to a directory that is mounted at that moment
\* (the symlink is single, so at most one generation is live).
C14_StablePointsToMounted ==
    stable # "absent" => device_mounted(stable)

\* A mount invocation has returned Ok in slot i.
MountSucceeded(i) ==
    inv[i].op = "mount" /\ inv[i].pc = "done" /\ inv[i].res.kind = "Ok"

\* C15: when a mount has completed successfully, no directory other than
\* its own mount point is still mounted: generations left mounted by an
\* earlier mount that failed after mounting its ramfs are unmounted.
C15_OldGenerationsPurged ==
    MountSucceeded(1) => \A d \in Dirs \ {inv[1].mp} : ~device_mounted(d)

\* C16: the last step of a mount, reached after every secret was written,
\* succeeds whether or not the stable directory already exists: it returns
\* Ok and the stable directory then points to the mount point of this mount.
C16_RemountReplacesStable ==
    [][\A i \in Inv :
          (inv[i].op = "mount" /\ inv[i].pc = "secrets" /\ inv[i].left = <<>>
              /\ inv'[i].pc = "done")
          => (inv'[i].res.kind = "Ok" /\ stable' = inv[i].mp)]_vars

\* Two mounts with distinct mount points have both run to their last step
\* and returned.
BothMountsFinished ==
    /\ \A i \in Inv : inv[i].op = "mount" /\ inv[i].pc = "done" /\ inv[i].left = <<>>
    /\ inv[1].mp # inv[2].mp

\* C17: when two concurrent mounts with distinct mount points have both
\* finished, both have replaced the stable symlink in turn (the last writer
\* wins), and the stable directory points to the mount point of one of
\* them, which is still mounted and holds every configured secret.
C17_ConcurrentLastWriterWins ==
    BothMountsFinished =>
        /\ \A i \in Inv : inv[i].res.kind = "Ok"
        /\ stable \in {inv[1].mp, inv[2].mp}
        /\ device_mounted(stable)
        /\ \A k \in 1..Len(cfg) : Visible(stable)[cfg[k]].data = Plain(cfg[k])

\* C18: when a mount has completed successfully, the stable directory
\* points to its mount point and, for every configured secret, the file
\* stable_dir/<name> exists and holds exactly the plaintext of the object
\* stored for that secret.
C18_EverySecretMounted ==
    MountSucceeded(1) =>
        /\ stable = inv[1].mp
        /\ \A k \in 1..Len(cfg) :
              LET r == decrypt_bytes(objects[cfg[k]], HostIdentities)
              IN /\ r.ok
                 /\ Visible(stable)[cfg[k]] = [exists |-> TRUE, data |-> r.plain]

\* A successful mount of two secrets whose files hold the uploaded bytes.
C18_Witness ==
    /\ MountSucceeded(1)
    /\ Len(cfg) = 2
    /\ device_mounted(inv[1].mp)
    /\ \A k \in 1..Len(cfg) : Visible(stable)[cfg[k]].data = Plain(cfg[k])
    /\ links["p1"] = <<inv[1].mp, "s1">>

\* C19 as stated: a mount whose mount point is already mounted when it
\* checks returns AlreadyMounted, and changes nothing on the file system.
C19_AlreadyMountedOnly ==
    [][(inv[1].op = "mount" /\ inv[1].pc = "check" /\ device_mounted(inv[1].mp))
          => /\ inv'[1].pc = "done"
             /\ inv'[1].res = Err("AlreadyMounted")
             /\ UNCHANGED fsVars]_vars

\* C19, amended: a mount whose mount point is already mounted when it
\* checks returns an error at once, AlreadyMounted or, when the mount table
\* cannot be read, MountCheckFailure, and changes nothing on the file
\* system: no mount, no file, no vanity symlink, the stable symlink as it was.
C19_AlreadyMountedRefused ==
    [][(inv[1].op = "mount" /\ inv[1].pc = "check" /\ device_mounted(inv[1].mp))
          => /\ inv'[1].pc = "done"
             /\ inv'[1].res \in {Err("AlreadyMounted"), Err("MountCheckFailure")}
             /\ UNCHANGED fsVars]_vars

\* A second mount of the live generation was refused with AlreadyMounted.
C19_Witness ==
    /\ inv[1].op = "mount" /\ inv[1].pc = "done"
    /\ inv[1].res = Err("AlreadyMounted")
    /\ device_mounted(inv[1].mp)
    /\ stable = inv[1].mp
    /\ Len(layers[inv[1].mp]) = 1

\* C20: when an unmount has returned Ok, the stable directory does not
\* exist and no directory is mounted.
C20_UnmountLeavesNothing ==
    (inv[1].op = "unmount" /\ inv[1].pc = "done" /\ inv[1].res.kind = "Ok")
        => (stable = "absent" /\ \A d \in Dirs : ~device_mounted(d))

\* ------------------------------------------------------------------------
\* Claims about the exposures
\* ------------------------------------------------------------------------

\* C21: when two File specs of the exposures carry the same vanity path,
\* building the exposures has failed before any file system work: no temp
\* directory, no plaintext file and no symlink is ever made by the run.
C21_DuplicatePathBeforeIO ==
    DuplicatePath(exposures) =>
        /\ ~secret_dir
        /\ \A n \in Names : ~tmpFiles[n].exists
        /\ createdLinks = {}

\* C22: when two Env specs of the exposures carry the same variable name,
\* building the exposures has failed: run_process never sets a variable on
\* the command of the child.
C22_DuplicateEnvNameRejected ==
    DuplicateEnvName(exposures) => \A e \in EnvNames : ~cmdEnv[e].set

\* C23: every Exposures value that is handed on, whether get_exposures
\* returned it or the StateBuilder collected it, holds no vanity path twice
\* among its File specs and no variable name twice among its Env specs.
C23_ExposuresDuplicateFree ==
    /\ expPc = "builder" =>
          (~DuplicatePath(expAB) /\ ~DuplicateEnvName(expAB))
    /\ sbResult.kind # "Err" =>
          (~HasDuplicate(sbItems.files) /\ ~HasDuplicate(sbItems.envs))

\* How often a value occurs in a list.
Count(q, x) == Cardinality({i \in 1..Len(q) : q[i] = x})

\* Two lists hold the same specs, each as often, in whatever order.
SameSpecs(q, r) == \A x \in Range(q) \cup Range(r) : Count(q, x) = Count(r, x)

\* C24 as stated: for inputs without duplicates, adding A then B gives the
\* same Exposures as adding B then A, the list of every secret included.
C24_AdditionCommutes ==
    (expPc = "builder" /\ ~DuplicatePath(expAB) /\ ~DuplicateEnvName(expAB))
        => expAB = expBA

\* C24, amended: adding A then B gives, for every secret, the same File
\* specs and the same Env specs as adding B then A; only the order of the
\* specs within the list of a secret depends on the order of the inputs.
C24_AdditionCommutesUpToOrder ==
    expPc = "builder" =>
        \A n \in Names : /\ SameSpecs(expAB.files[n], expBA.files[n])
                         /\ SameSpecs(expAB.envs[n], expBA.envs[n])

\* Two inputs without duplicates give the specs of one secret in two orders.
C24_Witness ==
    /\ expPc = "builder"
    /\ ~DuplicatePath(expAB) /\ ~DuplicateEnvName(expAB)
    /\ Len(inA) = MaxEntries /\ inB # <<>>
    /\ expAB # expBA
    /\ \E n \in Names : Len(expAB.files[n]) >= 2 /\ SameSpecs(expAB.files[n], expBA.files[n])

\* ------------------------------------------------------------------------
\* Claims about edit
\* ------------------------------------------------------------------------

IsPrefix(q, r) == Len(q) <= Len(r) /\ SubSeq(r, 1, Len(q)) = q

\* C25: the steps of edit come in the order fetch, decrypt, write temp
\* file, editor, encrypt, write store; the store changes only in the write
\* step, after the editor has exited with success; and when edit returns
\* EditorBadExit the editor has exited non-zero and the store holds what it
\* held before.
C25_EditorBadExitKeepsStore ==
    [][/\ IsPrefix(edLog', EditOrder)
       /\ (edStore' # edStore => (edPc = "write" /\ edStatus = 0))
       /\ (edResult'.err = "EditorBadExit" =>
               (edStatus # 0 /\ edStore' = edStore /\ "store" \notin Range(edLog')))]_vars

\* The editor rewrote the file and exited non-zero: EditorBadExit, and the
\* store still holds the upload it held.
C25_Witness ==
    /\ edResult = Err("EditorBadExit")
    /\ edStatus = 1
    /\ edLog = <<"fetch", "decrypt", "write_temp", "editor">>
    /\ edStore = AgeFile(Plain(edName), <<"age1">>)
    /\ ~edTemp.exists

\* ------------------------------------------------------------------------
\* Further claims about run_process
\* ------------------------------------------------------------------------

\* C26: at the step in which run_process raises NoSuchSecret nothing has
\* been materialized: no plaintext file is in the temp directory, no
\* variable is set on the command, no vanity symlink was created, and no
\* child runs.
C26_NoSuchSecretBeforeMaterialization ==
    [][(result'.err = "NoSuchSecret" /\ result.kind = "none") =>
          /\ \A n \in Names : ~tmpFiles[n].exists
          /\ \A e \in EnvNames : ~cmdEnv[e].set
          /\ createdLinks = {}
          /\ child = "none"]_vars

\* C27: when the env loop comes to a configured secret whose plaintext is
\* not valid UTF-8, the failure of that iteration is reported as
\* NotValidUTF8: the iteration can end run_process with that error.
C27_InvalidUTF8Reported ==
    (pc = "envs" /\ \E name \in envsLeft \cap secrets : ~ValidUTF8(Plain(name)))
        => ENABLED (ExposeEnvSecret /\ result' = Err("NotValidUTF8"))

\* ------------------------------------------------------------------------
\* Claims about passphrase files and recipients
\* ------------------------------------------------------------------------

\* The header of these bytes holds an scrypt stanza.
IsPassphraseFile(bytes) ==
    /\ Len(bytes) >= HeaderFixed
    /\ LET stanzas == Stanzas(SubSeq(bytes, HeaderFixed + 1, Len(bytes)))
       IN \E i \in 1..Len(stanzas) : stanzas[i] = "scrypt"

C29_EncryptedToEveryRecipient ==
    /\ (public_keys = <<>> /\ encPc \notin {"idle", "start"}) =>
          /\ encPc = "failed"
          /\ encErr \in {"NoRecipientsFound", "CreatingPipe"}
          /\ pump = "none"
          /\ got = <<>>
          /\ store = <<>>
    /\ encPc \in {"header", "returned"} =>
          \A i \in 1..Len(public_keys) : parse_recipient(public_keys[i]).ok

\* C30: once the file loop and the env loop of run_process have succeeded,
\* the file secret_dir/<name> of every secret with a File spec holds the
\* full plaintext of that secret, and the variable of every Env spec holds
\* the full plaintext of the secret the spec is attached to, whatever the
\* number of specs attached to a secret.
C30_FullPlaintextMaterialized ==
    pc = "spawn" =>
        /\ \A n \in Keys(exposures.files) :
              tmpFiles[n].exists /\ tmpFiles[n].data = Plain(n)
        /\ \A n \in Keys(exposures.envs) :
              \A e \in Range(exposures.envs[n]) :
                 cmdEnv[e].set /\ cmdEnv[e].data = Plain(n)

\* ------------------------------------------------------------------------
\* Claims about vanity paths, the temp file of edit, and frames
\* ------------------------------------------------------------------------

\* C31 (mount path): when mount comes to a secret whose mount_path is a
\* symlink already, and the file of the secret is written, the symlink is
\* replaced: afterwards it points to the file in this mount point, and mount
\* goes on to the next secret.
C31_VanitySymlinkReplaced ==
    [][\A i \in Inv :
          (/\ inv[i].op = "mount" /\ inv[i].pc = "secrets" /\ inv[i].left # <<>>
           /\ mount_path(Head(inv[i].left)) # "none"
           /\ links[mount_path(Head(inv[i].left))] # "absent"
           /\ inv'[i] # inv[i])
          => \/ inv'[i].res.err \in {"ReadFromStoreFailure", "CreatingFilesFailure",
                                     "DecryptingSecretFailure", "PermissionSettingFailure"}
             \/ /\ links'[mount_path(Head(inv[i].left))] = <<inv[i].mp, Head(inv[i].left)>>
                /\ inv'[i].left = Tail(inv[i].left)]_vars

\* C32: when edit has returned, with Ok or with any error, the temp file
\* that held the plaintext does not exist.
C32_TempFileGoneOnReturn ==
    edPc = "done" => (edResult.kind # "none" /\ ~edTemp.exists /\ edTemp.data = <<>>)

\* edit returned EditorBadExit after the plaintext was written to the temp
\* file and the editor ran on it.
C32_Witness ==
    /\ edPc = "done"
    /\ edResult = Err("EditorBadExit")
    /\ edLog = <<"fetch", "decrypt", "write_temp", "editor">>
    /\ ~edTemp.exists

\* C33: run_process with an empty argv returns EmptyCommand as its first
\* step, unless a signal ends the agent before that step: at no later point does a tmpdir exist, is a signal handler
\* installed, has a secret been read into buf or written to a file or a
\* variable, or is there a child.
C33_EmptyCommandFirst ==
    (argv = <<>> /\ pc # "start") =>
        /\ pc \in {"done", "exited", "killed"}
        /\ pc # "killed" => result = Err("EmptyCommand")
        /\ ~secret_dir
        /\ armed = {} /\ requested = {}
        /\ buf = <<>>
        /\ \A n \in Names : ~tmpFiles[n].exists
        /\ \A e \in EnvNames : ~cmdEnv[e].set
        /\ createdLinks = {}
        /\ child = "none" /\ killLog = <<>>

\* run_process with an empty argv and exposures to materialize returned.
C33_Witness ==
    /\ argv = <<>>
    /\ pc = "done"
    /\ result = Err("EmptyCommand")
    /\ Keys(exposures.files) # {}
    /\ Keys(exposures.envs) # {}

\* C34: once the encrypt task has failed (reading the input, closing the
\* output, or a panic), no later step of create puts anything under the
\* key of the secret: the store keeps the object it held.
C34_FailedPumpKeepsStore ==
    [][(pump \in {"failed", "panicked"}) => (store' = store)]_vars

\* ------------------------------------------------------------------------
\* Claims about signal forwarding, the builder and failed mounts
\* ------------------------------------------------------------------------

\* C35: the select loop runs the kill helper at most once per signal that
\* reached the agent from outside: the signals other processes sent, and the
\* SIGCHLD of the child's own end. The SIGCHLD that the end of a kill
\* helper brings is not forwarded.
C35_ForwardingBounded ==
    Len(killLog) <= received + (IF child = "exited" THEN 1 ELSE 0)

\* C36: a call of add_file_exposures or add_env_exposures that fails with
\* DuplicatePath or DuplicateEnvName leaves the builder as it was before the
\* call: the sets of seen paths and seen names and the collected items are
\* unchanged.
C36_FailedAddLeavesBuilder ==
    [][(sbResult'.kind = "Err" /\ sbResult.kind # "Err")
          => /\ seen_file_paths' = seen_file_paths
             /\ seen_env_vars' = seen_env_vars
             /\ sbItems' = sbItems]_vars

\* C37: when a mount fails after its ramfs step (reading the identities,
\* writing a secret, the vanity symlink, the stable symlink), the stable
\* symlink is as it was, the generation it points to is still mounted with
\* its files as they were, and the failed attempt leaves nothing mounted on
\* its mount point, so that the check of a later mount on that mount point
\* passes.
C37_FailedMountLeavesNoBlock ==
    [][\A i \in Inv :
          (/\ inv[i].op = "mount"
           /\ inv[i].pc \in {"identities", "secrets"}
           /\ inv'[i].pc = "done"
           /\ inv'[i].res.kind = "Err")
          => /\ stable' = stable
             /\ (stable # "absent" /\ stable # inv[i].mp) => layers'[stable] = layers[stable]
             /\ layers'[inv[i].mp] = <<>>]_vars

====
